---- MODULE Spec2Model ----
(***************************************************************************)
(* Model of the smart-mirror pipeline (mirror_project).                    *)
(*                                                                         *)
(*   SpecSession  CaptureSession: start / stop / frames generator / scope  *)
(*   SpecMain     mirror_main.main: acquisition, main loop, cleanup        *)
(*   SpecRender   OverlayRenderer.render and render_sequence               *)
(*   SpecCalib    save_calibration / load_calibration on a file system     *)
(*                                                                         *)
(* Every specification constrains all variables; the variables of the      *)
(* other components stay at their initial values.                          *)
(***************************************************************************)
EXTENDS Naturals, Integers, Sequences, FiniteSets

VARIABLES
    \* ---- CaptureSession (capture.py)
    started,      \* self._started
    alignOn,      \* self._align is not None (config.align_to_color)
    devOpen,      \* the rs.pipeline handle is streaming
    devLog,       \* successful pipeline.start / pipeline.stop calls, in order
    gens,         \* generator objects returned by frames()
    delivered,    \* frame sets returned by pipeline.wait_for_frames, in order
    yielded,      \* pairs yielded by frames() generators, in order
    scope,        \* position relative to a `with session:` block
    last,         \* the most recent call on the session and its outcome
    \* ---- main() (mirror_main.py)
    pc, recordOut, estimator, estCloses, writer, windowsDestroyed, err, pose,
    \* ---- OverlayRenderer (overlay.py)
    rsFrames, rsPoses, rsPos, rsOut, rsState, renderLast,
    \* ---- calibration (calibration.py)
    fs, npAllowPickle, lastSave, calLast

sessVars   == <<started, alignOn, devOpen, devLog, gens, delivered, yielded, scope, last>>
mainVars   == <<pc, recordOut, estimator, estCloses, writer, windowsDestroyed, err, pose>>
renderVars == <<rsFrames, rsPoses, rsPos, rsOut, rsState, renderLast>>
calVars    == <<fs, npAllowPickle, lastSave, calLast>>
vars       == <<sessVars, mainVars, renderVars, calVars>>

\* ---- bounds of the model
MaxGens      == 1     \* generator objects obtained from frames()
MaxDeliver   == 2     \* frame sets the device delivers in one run
MaxDevCalls  == 4     \* successful device open/release calls in one run
MaxSeq       == 2     \* length of the sequences given to render_sequence
MaxLandmarks == 30    \* landmarks in a PoseResult

\* A missing frame component (a falsy frame handle).
None == 0

\* Optional[PoseResult]: None, or a PoseResult with n landmarks (landmark i
\* stands for its own pixel position).
NoPose == [isNone |-> TRUE, landmarks |-> 0]

PoseResult(n) == [isNone |-> FALSE, landmarks |-> n]

(***************************************************************************)
(* CaptureSession                                                          *)
(***************************************************************************)

\* A frame set as the device delivers it: the k-th delivery carries k in each
\* component that is present and None in each that is missing.
FrameSet(k, hasColor, hasDepth) ==
    [color   |-> IF hasColor THEN k ELSE None,
     depth   |-> IF hasDepth THEN k ELSE None,
     aligned |-> FALSE]

\* rs.align.process: depth reprojected onto the color viewpoint.
AlignProcess(frameset) == [frameset EXCEPT !.aligned = TRUE]

\* Negation of `not color_frame or not depth_frame`, mutated: and for or.
HasBothMut(frameset) == frameset.color # None \/ frameset.depth # None

\* Negation of the skip test `not color_frame or not depth_frame`.
HasBoth(frameset) == frameset.color # None /\ frameset.depth # None

Call(op, gen, res) == [op |-> op, gen |-> gen, res |-> res]

InitSession ==
    /\ started = FALSE
    /\ alignOn \in BOOLEAN
    /\ devOpen = FALSE
    /\ devLog = << >>
    /\ gens = [g \in 1..MaxGens |-> [st |-> "unused", born |-> FALSE]]
    /\ delivered = << >>
    /\ yielded = << >>
    /\ scope = "out"
    /\ last = Call("init", 0, "ok")

\* start() without the `if self._started: return` guard.
StartEffectMut(ok) ==
    IF ok
    THEN /\ devLog' = Append(devLog, "open")
         /\ devOpen' = TRUE
         /\ started' = TRUE
    ELSE UNCHANGED <<devLog, devOpen, started>>

\* start(): ok is whether pipeline.start(cfg) succeeds (it raises when the
\* device or the playback file cannot be opened).
StartEffect(ok) ==
    IF started
    THEN UNCHANGED <<devLog, devOpen, started>>
    ELSE IF ok
         THEN /\ devLog' = Append(devLog, "open")
              /\ devOpen' = TRUE
              /\ started' = TRUE
         ELSE UNCHANGED <<devLog, devOpen, started>>

\* What the caller of start() sees: a no-op, an opened device, or the error
\* pipeline.start raised.
StartResult(ok) == IF started THEN "noop" ELSE IF ok THEN "ok" ELSE "DeviceError"

\* What the caller of stop() sees.
StopResult == IF started THEN "ok" ELSE "noop"

\* stop()
StopEffect ==
    IF ~started
    THEN UNCHANGED <<devLog, devOpen, started>>
    ELSE /\ devLog' = Append(devLog, "release")
         /\ devOpen' = FALSE
         /\ started' = FALSE

DevRoom == Len(devLog) < MaxDevCalls

Start(ok) ==
    /\ DevRoom
    /\ StartEffect(ok)
    /\ last' = Call("start", 0, StartResult(ok))
    /\ UNCHANGED <<alignOn, gens, delivered, yielded, scope>>

Stop ==
    /\ DevRoom
    /\ StopEffect
    /\ last' = Call("stop", 0, StopResult)
    /\ UNCHANGED <<alignOn, gens, delivered, yielded, scope>>

\* __enter__: start(), then the body runs; if start() raises the scope is
\* never entered and __exit__ is not called.
Enter(ok) ==
    /\ scope = "out"
    /\ DevRoom
    /\ StartEffect(ok)
    /\ scope' = IF StartResult(ok) = "DeviceError" THEN "out" ELSE "in"
    /\ last' = Call("__enter__", 0, StartResult(ok))
    /\ UNCHANGED <<alignOn, gens, delivered, yielded>>

\* __exit__ that skips stop() when the body raised.
ExitMut(exc) ==
    /\ scope = "in"
    /\ DevRoom
    /\ IF exc THEN UNCHANGED <<devLog, devOpen, started>> ELSE StopEffect
    /\ scope' = "done"
    /\ last' = Call("__exit__", 0, IF exc THEN "raised" ELSE "ok")
    /\ UNCHANGED <<alignOn, gens, delivered, yielded>>

\* __exit__(exc_type, exc, tb): stop(); returns None, so an exception of the
\* body (exc) propagates after the session is stopped.
Exit(exc) ==
    /\ scope = "in"
    /\ DevRoom
    /\ StopEffect
    /\ scope' = "done"
    /\ last' = Call("__exit__", 0, IF exc THEN "raised" ELSE "ok")
    /\ UNCHANGED <<alignOn, gens, delivered, yielded>>

\* frames() is a generator function: the call runs none of its body and
\* returns a generator object; born records self._started at the call.
FramesCall(g) ==
    /\ gens[g].st = "unused"
    /\ \A h \in 1..(g-1) : gens[h].st # "unused"
    /\ gens' = [gens EXCEPT ![g] = [st |-> "created", born |-> started]]
    /\ last' = Call("frames", g, "generator")
    /\ UNCHANGED <<started, alignOn, devOpen, devLog, delivered, yielded, scope>>

Stamp(skipped, base) ==
    [i \in 1..Len(skipped) |-> FrameSet(base + i, skipped[i][1], skipped[i][2])]

Presence == BOOLEAN \X BOOLEAN

\* The pair built from a frame set that passed the skip test.
PairOf(frameset) ==
    [color |-> frameset.color, depth |-> frameset.depth, aligned |-> frameset.aligned]

\* The `while True` loop of frames() up to its next yield: wait_for_frames,
\* align, skip while a component is missing.  The device handle decides each
\* wait: it delivers a frame set (any component may be missing) or raises;
\* the loop itself never looks at self._started.
FramesLoop(g) ==
    \E k \in 0..(MaxDeliver - Len(delivered)), ending \in {"pair", "DeviceError"} :
    \E pres \in [1..(k + (IF ending = "pair" THEN 1 ELSE 0)) -> Presence] :
        LET n      == k + (IF ending = "pair" THEN 1 ELSE 0)
            raw    == Stamp(pres, Len(delivered))
            got    == [i \in 1..n |-> IF alignOn THEN AlignProcess(raw[i]) ELSE raw[i]]
        IN  /\ Len(delivered) + n <= MaxDeliver
            /\ \A i \in 1..k : ~HasBoth(got[i])
            /\ ending = "pair" => HasBoth(got[n])
            /\ delivered' = delivered \o raw
            /\ IF ending = "pair"
               THEN /\ yielded' = Append(yielded, PairOf(got[n]))
                    /\ gens' = [gens EXCEPT ![g].st = "running"]
               ELSE /\ yielded' = yielded
                    /\ gens' = [gens EXCEPT ![g].st = "closed"]
            /\ last' = Call("next", g, ending)

\* next() on a generator returned by frames().
NextFrame(g) ==
    /\ gens[g].st # "unused"
    /\ \/ /\ gens[g].st = "created"
          /\ ~started
          /\ gens' = [gens EXCEPT ![g].st = "closed"]
          /\ last' = Call("next", g, "LifecycleError")
          /\ UNCHANGED <<delivered, yielded>>
       \/ /\ gens[g].st = "created"
          /\ started
          /\ FramesLoop(g)
       \/ /\ gens[g].st = "running"
          /\ FramesLoop(g)
       \/ /\ gens[g].st = "closed"
          /\ last' = Call("next", g, "StopIteration")
          /\ UNCHANGED <<gens, delivered, yielded>>
    /\ UNCHANGED <<started, alignOn, devOpen, devLog, scope>>

InitMainIdle ==
    /\ pc = "idle" /\ recordOut = FALSE /\ estimator = "none" /\ estCloses = 0
    /\ writer = "none" /\ windowsDestroyed = 0 /\ err = "none" /\ pose = NoPose

InitRenderIdle ==
    /\ rsFrames = << >> /\ rsPoses = << >> /\ rsPos = 0 /\ rsOut = << >>
    /\ rsState = "idle" /\ renderLast = [status |-> "none", frame |-> 0, ops |-> << >>, landmarks |-> 0]

InitCalibIdle ==
    /\ fs = << >> /\ npAllowPickle = FALSE
    /\ lastSave = [valid |-> FALSE] /\ calLast = [op |-> "none"]

idleOthers == <<mainVars, renderVars, calVars>>

NextSession ==
    \/ \E ok \in BOOLEAN : Start(ok) /\ UNCHANGED idleOthers
    \/ Stop /\ UNCHANGED idleOthers
    \/ \E ok \in BOOLEAN : Enter(ok) /\ UNCHANGED idleOthers
    \/ \E exc \in BOOLEAN : Exit(exc) /\ UNCHANGED idleOthers
    \/ \E g \in 1..MaxGens : FramesCall(g) /\ UNCHANGED idleOthers
    \/ \E g \in 1..MaxGens : NextFrame(g) /\ UNCHANGED idleOthers

InitS == InitSession /\ InitMainIdle /\ InitRenderIdle /\ InitCalibIdle

SpecSession == InitS /\ [][NextSession]_vars

(***************************************************************************)
(* main() of mirror_main.py                                                *)
(*                                                                         *)
(* pc is the position in main(); err is the exception in flight ("none"    *)
(* when there is none).  The with-statement is Enter/Exit of the session,  *)
(* the for-loop is FramesCall and NextFrame on generator 1.                *)
(***************************************************************************)

InitMain ==
    /\ pc = "start"
    /\ recordOut \in BOOLEAN
    /\ estimator = "none"
    /\ estCloses = 0
    /\ writer = "none"
    /\ windowsDestroyed = 0
    /\ err = "none"
    /\ pose = NoPose

\* parse_args, OverlayRenderer(), PoseEstimator(): the model may fail to load.
MainConstruct(ok) ==
    /\ pc = "start"
    /\ IF ok
       THEN /\ estimator' = "open"
            /\ pc' = "ensure_dir"
            /\ err' = err
       ELSE /\ estimator' = estimator
            /\ pc' = "done"
            /\ err' = "ModelError"
    /\ UNCHANGED <<recordOut, estCloses, writer, windowsDestroyed, pose, sessVars>>

\* config, output_writer = None, ensure_directory(record_out.parent) when
\* --record-out is given (mkdir can raise).
MainEnsureDir(ok) ==
    /\ pc = "ensure_dir"
    /\ IF recordOut /\ ~ok
       THEN /\ pc' = "done"
            /\ err' = "OSError"
       ELSE /\ pc' = "with"
            /\ err' = err
    /\ UNCHANGED <<recordOut, estimator, estCloses, writer, windowsDestroyed, pose, sessVars>>

\* with CaptureSession(config) as session: __enter__ runs start(); when it
\* raises, neither the try block nor __exit__ runs and main() ends.
MainEnter(ok) ==
    /\ pc = "with"
    /\ Enter(ok)
    /\ IF scope' = "in"
       THEN /\ pc' = "for"
            /\ err' = err
       ELSE /\ pc' = "done"
            /\ err' = "DeviceError"
    /\ UNCHANGED <<recordOut, estimator, estCloses, writer, windowsDestroyed, pose>>

\* try: for color, depth in session.frames(): the generator is created.
MainFrames ==
    /\ pc = "for"
    /\ FramesCall(1)
    /\ pc' = "pull"
    /\ UNCHANGED <<recordOut, estimator, estCloses, writer, windowsDestroyed, err, pose>>

\* The for-loop advances the generator; a capture error ends the loop.
MainPull ==
    /\ pc = "pull"
    /\ NextFrame(1)
    /\ IF last'.res = "pair"
       THEN /\ pc' = "estimate"
            /\ err' = err
       ELSE /\ pc' = "finally_writer"
            /\ err' = last'.res
    /\ UNCHANGED <<recordOut, estimator, estCloses, writer, windowsDestroyed, pose>>

\* pose = estimator.estimate(color): a PoseResult, None, or an error.
MainEstimate(outcome) ==
    /\ pc = "estimate"
    /\ IF outcome = "raise"
       THEN /\ pc' = "finally_writer"
            /\ err' = "PoseError"
            /\ pose' = pose
       ELSE /\ pc' = "render"
            /\ err' = err
            /\ pose' = IF outcome = "pose" THEN PoseResult(MaxLandmarks) ELSE NoPose
    /\ UNCHANGED <<recordOut, estimator, estCloses, writer, windowsDestroyed, sessVars>>

\* annotated = renderer.render(color, pose) if pose else color
MainRender(ok) ==
    /\ pc = "render"
    /\ IF ~pose.isNone /\ ~ok
       THEN /\ pc' = "finally_writer"
            /\ err' = "RenderError"
       ELSE /\ pc' = "record"
            /\ err' = err
    /\ UNCHANGED <<recordOut, estimator, estCloses, writer, windowsDestroyed, pose, sessVars>>

\* if args.record_out: create the VideoWriter on first use, write the frame.
MainRecord(outcome) ==
    /\ pc = "record"
    /\ IF ~recordOut
       THEN /\ pc' = "display"
            /\ UNCHANGED <<writer, err>>
       ELSE IF outcome = "ctor_raises" /\ writer = "none"
       THEN /\ pc' = "finally_writer"
            /\ err' = "WriterError"
            /\ writer' = writer
       ELSE /\ writer' = "open"
            /\ IF outcome = "write_raises"
               THEN pc' = "finally_writer" /\ err' = "WriterError"
               ELSE pc' = "display" /\ err' = err
    /\ UNCHANGED <<recordOut, estimator, estCloses, windowsDestroyed, pose, sessVars>>

\* applyColorMap, hconcat, imshow, waitKey: ESC breaks the loop.
MainDisplay(outcome) ==
    /\ pc = "display"
    /\ IF outcome = "raise"
       THEN pc' = "finally_writer" /\ err' = "DisplayError"
       ELSE IF outcome = "esc"
       THEN pc' = "finally_writer" /\ err' = err
       ELSE pc' = "pull" /\ err' = err
    /\ UNCHANGED <<recordOut, estimator, estCloses, writer, windowsDestroyed, pose, sessVars>>

\* finally: if output_writer is not None: output_writer.release(); an
\* exception here leaves the finally block at once.
MainFinWriter(ok) ==
    /\ pc = "finally_writer"
    /\ IF writer = "none"
       THEN /\ pc' = "finally_windows"
            /\ UNCHANGED <<writer, err>>
       ELSE IF ok
       THEN /\ pc' = "finally_windows"
            /\ writer' = "released"
            /\ err' = err
       ELSE /\ pc' = "exit"
            /\ writer' = writer
            /\ err' = "WriterError"
    /\ UNCHANGED <<recordOut, estimator, estCloses, windowsDestroyed, pose, sessVars>>

\* cv2.destroyAllWindows()
MainFinWindows(ok) ==
    /\ pc = "finally_windows"
    /\ IF ok
       THEN /\ pc' = "finally_close"
            /\ windowsDestroyed' = windowsDestroyed + 1
            /\ err' = err
       ELSE /\ pc' = "exit"
            /\ windowsDestroyed' = windowsDestroyed
            /\ err' = "DisplayError"
    /\ UNCHANGED <<recordOut, estimator, estCloses, writer, pose, sessVars>>

\* estimator.close()
MainFinClose ==
    /\ pc = "finally_close"
    /\ estimator' = "closed"
    /\ estCloses' = estCloses + 1
    /\ pc' = "exit"
    /\ UNCHANGED <<recordOut, writer, windowsDestroyed, err, pose, sessVars>>

\* The with-statement's __exit__, with the exception in flight if any.
MainExit ==
    /\ pc = "exit"
    /\ Exit(err # "none")
    /\ pc' = "done"
    /\ UNCHANGED <<recordOut, estimator, estCloses, writer, windowsDestroyed, err, pose>>

idleBesidesMain == <<renderVars, calVars>>

NextMain ==
    \/ \E ok \in BOOLEAN : MainConstruct(ok) /\ UNCHANGED idleBesidesMain
    \/ \E ok \in BOOLEAN : MainEnsureDir(ok) /\ UNCHANGED idleBesidesMain
    \/ \E ok \in BOOLEAN : MainEnter(ok) /\ UNCHANGED idleBesidesMain
    \/ MainFrames /\ UNCHANGED idleBesidesMain
    \/ MainPull /\ UNCHANGED idleBesidesMain
    \/ \E outcome \in {"pose", "none", "raise"} :
          MainEstimate(outcome) /\ UNCHANGED idleBesidesMain
    \/ \E ok \in BOOLEAN : MainRender(ok) /\ UNCHANGED idleBesidesMain
    \/ \E outcome \in {"ok", "ctor_raises", "write_raises"} :
          MainRecord(outcome) /\ UNCHANGED idleBesidesMain
    \/ \E outcome \in {"continue", "esc", "raise"} :
          MainDisplay(outcome) /\ UNCHANGED idleBesidesMain
    \/ \E ok \in BOOLEAN : MainFinWriter(ok) /\ UNCHANGED idleBesidesMain
    \/ \E ok \in BOOLEAN : MainFinWindows(ok) /\ UNCHANGED idleBesidesMain
    \/ MainFinClose /\ UNCHANGED idleBesidesMain
    \/ MainExit /\ UNCHANGED idleBesidesMain

InitM == InitSession /\ InitMain /\ InitRenderIdle /\ InitCalibIdle

SpecMain == InitM /\ [][NextMain]_vars

(***************************************************************************)
(* OverlayRenderer (overlay.py) and PoseResult.as_ndarray                  *)
(***************************************************************************)

\* _default_pairs(): the fixed skeleton edges, in drawing order.
DefaultPairs ==
    << <<11, 12>>, <<12, 14>>, <<14, 16>>, <<11, 13>>, <<13, 15>>, <<11, 23>>,
       <<12, 24>>, <<23, 25>>, <<25, 27>>, <<24, 26>>, <<26, 28>> >>

\* as_ndarray(): np.array of a list of n rows of 4 values has shape (n, 4);
\* np.array of the empty list has shape (0,), one dimension.
AsNdarray(p) ==
    [ndim |-> IF p.landmarks = 0 THEN 1 ELSE 2, rows |-> p.landmarks]

EdgeInRange(edge, count) == ~(edge[1] >= count \/ edge[2] >= count)

RECURSIVE DrawLines(_, _, _)
\* The `for start, end in self._pairs` loop from edge i on.
DrawLines(i, count, acc) ==
    IF i > Len(DefaultPairs) THEN acc
    ELSE DrawLines(i + 1, count,
                   IF EdgeInRange(DefaultPairs[i], count)
                   THEN Append(acc, [op |-> "line", a |-> DefaultPairs[i][1],
                                     b |-> DefaultPairs[i][2]])
                   ELSE acc)

\* The `for x, y in coords` loop: one circle per row of coords.
DrawCircles(count) == [i \in 1..count |-> [op |-> "circle", a |-> i - 1, b |-> i - 1]]

\* render(frame, pose): points[:, 0] indexes two dimensions and raises
\* IndexError on a one-dimensional array; otherwise a copy of the frame is
\* drawn on, lines first and circles after.
Render(frame, p) ==
    LET points == AsNdarray(p)
    IN  IF points.ndim < 2
        THEN [status |-> "IndexError", frame |-> frame, ops |-> << >>]
        ELSE [status |-> "ok", frame |-> frame,
              ops |-> DrawLines(1, points.rows, << >>) \o DrawCircles(points.rows)]

\* What render_sequence yields for a None pose: the input frame object.
SameFrame(frame) == [kind |-> "same", frame |-> frame, ops |-> << >>]

\* What it yields otherwise: the annotated copy render returned.
Annotated(r) == [kind |-> "copy", frame |-> r.frame, ops |-> r.ops]

\* The poses a sequence may hold: none, no landmarks, a full landmark set.
SeqPoses == {NoPose, PoseResult(0), PoseResult(MaxLandmarks)}

InitRender ==
    /\ \E m \in 0..MaxSeq : rsFrames = [i \in 1..m |-> i]
    /\ \E n \in 0..MaxSeq : rsPoses \in [1..n -> SeqPoses]
    /\ rsPos = 0
    /\ rsOut = << >>
    /\ rsState = "active"
    /\ renderLast = [status |-> "none", frame |-> 0, ops |-> << >>, landmarks |-> 0]

\* A direct call render(frame, pose).
RenderCall(frame, n) ==
    /\ LET r == Render(frame, PoseResult(n))
       IN  renderLast' = [status |-> r.status, frame |-> r.frame, ops |-> r.ops,
                          landmarks |-> n]
    /\ UNCHANGED <<rsFrames, rsPoses, rsPos, rsOut, rsState>>

\* next() on the generator render_sequence(frames, poses): zip takes the next
\* frame, then the next pose, and ends when either is exhausted.
RenderSeqNext ==
    /\ rsState = "active"
    /\ IF rsPos >= Len(rsFrames) \/ rsPos >= Len(rsPoses)
       THEN /\ rsState' = "done"
            /\ UNCHANGED <<rsPos, rsOut>>
       ELSE LET frame == rsFrames[rsPos + 1]
                p     == rsPoses[rsPos + 1]
                r     == Render(frame, p)
            IN  /\ rsPos' = rsPos + 1
                /\ IF p.isNone
                   THEN /\ rsOut' = Append(rsOut, SameFrame(frame))
                        /\ rsState' = rsState
                   ELSE IF r.status = "ok"
                   THEN /\ rsOut' = Append(rsOut, Annotated(r))
                        /\ rsState' = rsState
                   ELSE /\ rsOut' = rsOut
                        /\ rsState' = "error"
    /\ UNCHANGED <<rsFrames, rsPoses, renderLast>>

idleBesidesRender == <<sessVars, mainVars, calVars>>

NextRender ==
    \/ \E frame \in 1..MaxSeq, n \in 0..MaxLandmarks :
          RenderCall(frame, n) /\ UNCHANGED idleBesidesRender
    \/ RenderSeqNext /\ UNCHANGED idleBesidesRender

InitR == InitSession /\ InitMainIdle /\ InitRender /\ InitCalibIdle

SpecRender == InitR /\ [][NextRender]_vars

(***************************************************************************)
(* Calibration store (calibration.py) over a file system                   *)
(***************************************************************************)

\* Python values: None, or a NumPy array of some dtype holding val.
PyNone == [py |-> "None", dtype |-> "none", val |-> "none"]

Arr(dtype, val) == [py |-> "ndarray", dtype |-> dtype, val |-> val]

\* np.asanyarray as np.savez applies it to each keyword: None becomes a
\* zero-dimensional object array.
AsAnyArray(x) == IF x = PyNone THEN Arr("object", "None") ELSE x

Keys == {"camera_matrix", "distortion_coeffs", "extrinsics"}

\* A path is its name split before the suffix.
Paths == {<<"calib", ".npz">>, <<"calib">>}

\* np.savez appends ".npz" to a file name that does not end with it.
SavezTarget(path) ==
    IF path[Len(path)] = ".npz" THEN path ELSE Append(path, ".npz")

Files == Paths \cup {SavezTarget(path) : path \in Paths}

NoFile == [exists |-> FALSE, members |-> [k \in {} |-> PyNone]]

Archive(members) == [exists |-> TRUE, members |-> members]

\* Archives written by other tools before the run: without extrinsics, or
\* without a required key.
Foreign ==
    { Archive([k \in {"camera_matrix", "distortion_coeffs"} |-> Arr("float64", k)]),
      Archive([k \in {"camera_matrix"} |-> Arr("float64", k)]) }

CalibrationData(cm, dc, ex) ==
    [camera_matrix |-> cm, distortion_coeffs |-> dc, extrinsics |-> ex]

NoData == CalibrationData(PyNone, PyNone, PyNone)

ValidData ==
    { CalibrationData(Arr("float64", cm), Arr("float64", dc), ex) :
        cm \in {"K1", "K2"}, dc \in {"D1"}, ex \in {PyNone, Arr("float64", "E1")} }

InitCalib ==
    /\ fs \in [Files -> {NoFile} \cup Foreign]
    /\ npAllowPickle \in BOOLEAN
    /\ lastSave = [valid |-> FALSE, path |-> << >>, data |-> NoData]
    /\ calLast = [op |-> "none", path |-> << >>, status |-> "ok", data |-> NoData]

\* save_calibration(data, path): np.savez with the three keywords.
SaveCalibration(data, path) ==
    /\ fs' = [fs EXCEPT ![SavezTarget(path)] =
                 Archive([k \in Keys |-> AsAnyArray(data[k])])]
    /\ lastSave' = [valid |-> TRUE, path |-> path, data |-> data]
    /\ calLast' = [op |-> "save", path |-> path, status |-> "ok", data |-> NoData]
    /\ UNCHANGED npAllowPickle

\* NpzFile.__getitem__: KeyError for an absent member; an object array is a
\* pickle, which np.load refuses unless allow_pickle (its default changed
\* from True to False between NumPy releases).
GetItem(archive, key) ==
    IF key \notin DOMAIN archive.members THEN [status |-> "KeyError", value |-> PyNone]
    ELSE IF archive.members[key].dtype = "object" /\ ~npAllowPickle
    THEN [status |-> "ValueError", value |-> PyNone]
    ELSE [status |-> "ok", value |-> archive.members[key]]

\* Mapping.get: the default None replaces a KeyError and nothing else.
Get(archive, key) ==
    LET r == GetItem(archive, key)
    IN  IF r.status = "KeyError" THEN [status |-> "ok", value |-> PyNone] ELSE r

\* load_calibration(path)
LoadResult(path) ==
    IF ~fs[path].exists THEN [status |-> "FileNotFoundError", data |-> NoData]
    ELSE LET cm == GetItem(fs[path], "camera_matrix")
             dc == GetItem(fs[path], "distortion_coeffs")
             ex == Get(fs[path], "extrinsics")
         IN  IF cm.status # "ok" THEN [status |-> cm.status, data |-> NoData]
             ELSE IF dc.status # "ok" THEN [status |-> dc.status, data |-> NoData]
             ELSE IF ex.status # "ok" THEN [status |-> ex.status, data |-> NoData]
             ELSE [status |-> "ok",
                   data |-> CalibrationData(cm.value, dc.value, ex.value)]

LoadCalibration(path) ==
    /\ calLast' = [op |-> "load", path |-> path,
                   status |-> LoadResult(path).status, data |-> LoadResult(path).data]
    /\ UNCHANGED <<fs, npAllowPickle, lastSave>>

idleBesidesCalib == <<sessVars, mainVars, renderVars>>

NextCalib ==
    \/ \E data \in ValidData, path \in Paths :
          SaveCalibration(data, path) /\ UNCHANGED idleBesidesCalib
    \/ \E path \in Paths : LoadCalibration(path) /\ UNCHANGED idleBesidesCalib

InitC == InitSession /\ InitMainIdle /\ InitRenderIdle /\ InitCalib

SpecCalib == InitC /\ [][NextCalib]_vars

(***************************************************************************)
(* Claims about CaptureSession (checked under SpecSession)                 *)
(***************************************************************************)

C2_UnstartedFramesNeverYields ==
    (last.op = "next" /\ ~gens[last.gen].born) => last.res # "pair"

Alternates(log) ==
    \A i \in 1..Len(log) : log[i] = IF i % 2 = 1 THEN "open" ELSE "release"

\* C3: start() on a started session and stop() on a stopped session are
\* no-ops: device opens and releases strictly alternate, beginning with an
\* open, and the device is open exactly after an odd number of them.
C3_DeviceCallsAlternate ==
    /\ Alternates(devLog)
    /\ devOpen <=> (Len(devLog) % 2 = 1)
    /\ started <=> devOpen

\* C3 witness: a second start() on a session that was started, stopped and
\* started again returned as a no-op.
C3_Witness ==
    /\ last = Call("start", 0, "noop")
    /\ Len(devLog) = 3

\* C4: when a with-block over the session ends, normally or by an exception,
\* whatever start()/stop() calls the body made, every device open has been
\* released exactly once and the session is stopped.
C4_ScopeReleases ==
    last.op = "__exit__" =>
        /\ ~started
        /\ ~devOpen
        /\ Alternates(devLog)
        /\ Len(devLog) % 2 = 0

\* C4 witness: the scope was left by an exception after the body had stopped
\* and restarted the session.
C4_Witness ==
    /\ last = Call("__exit__", 0, "raised")
    /\ Len(devLog) = 4
    /\ scope = "done"

IsComplete(frameset) == frameset.color # None /\ frameset.depth # None

\* C6: the pairs yielded are exactly the delivered frame sets that have both
\* components, in delivery order (aligned when alignment is configured); no
\* yielded pair has a missing component.
C6_YieldsCompletePairs ==
    LET complete == SelectSeq(delivered, IsComplete)
    IN  /\ Len(yielded) = Len(complete)
        /\ \A i \in 1..Len(yielded) :
              /\ yielded[i].color = complete[i].color
              /\ yielded[i].depth = complete[i].depth
              /\ yielded[i].aligned = alignOn
              /\ yielded[i].color # None
              /\ yielded[i].depth # None

\* C6 witness: a delivery without color was skipped and the next, complete
\* delivery was yielded by the same call.
C6_Witness ==
    /\ Len(delivered) = 2
    /\ delivered[1].color = None
    /\ Len(yielded) = 1
    /\ last.op = "next" /\ last.res = "pair"

(***************************************************************************)
(* Claims about main() (checked under SpecMain)                            *)
(***************************************************************************)

Releases == Len(SelectSeq(devLog, LAMBDA c : c = "release"))

\* C5: whenever the main loop has ended (by ESC or by an error) and main()
\* is over, the capture device has been released exactly once and the pose
\* model closed exactly once, also when a cleanup step failed.
C5_CleanupExactlyOnce ==
    (pc = "done" /\ scope = "done") => (Releases = 1 /\ estCloses = 1)

\* C10: once the PoseEstimator has been constructed, its close() has been
\* called exactly once on every path by which main() ends.
C10_EstimatorClosedOnEveryPath ==
    (pc = "done" /\ estimator # "none") => estCloses = 1

(***************************************************************************)
(* Claims about OverlayRenderer (checked under SpecRender)                 *)
(***************************************************************************)

Min(a, b) == IF a < b THEN a ELSE b

\* C7: render_sequence over m frames and n poses never ends in an error,
\* has yielded exactly min(m, n) outputs when it stops, and its i-th output
\* is the i-th frame itself when the i-th pose is None and the annotated copy
\* render makes of the i-th frame and pose otherwise.
C7_RenderSequenceZips ==
    /\ rsState # "error"
    /\ rsState = "done" => Len(rsOut) = Min(Len(rsFrames), Len(rsPoses))
    /\ \A i \in 1..Len(rsOut) :
          rsOut[i] = IF rsPoses[i].isNone
                     THEN SameFrame(rsFrames[i])
                     ELSE Annotated(Render(rsFrames[i], rsPoses[i]))

\* C8: for every landmark count N >= 0, render completes without error,
\* draws a line for exactly the edges with both endpoints below N, in the
\* fixed order, and after the lines exactly N circles, one per landmark.
C8_RenderDrawsInRangeEdges ==
    renderLast.status # "none" =>
        LET n     == renderLast.landmarks
            edges == SelectSeq(DefaultPairs, LAMBDA e : e[1] < n /\ e[2] < n)
        IN  /\ renderLast.status = "ok"
            /\ Len(renderLast.ops) = Len(edges) + n
            /\ \A j \in 1..Len(edges) :
                  renderLast.ops[j] = [op |-> "line", a |-> edges[j][1], b |-> edges[j][2]]
            /\ \A j \in 1..n :
                  renderLast.ops[Len(edges) + j] = [op |-> "circle", a |-> j - 1, b |-> j - 1]

(***************************************************************************)
(* Claims about the calibration store (checked under SpecCalib)            *)
(***************************************************************************)

\* C9: load_calibration(path) after save_calibration(data, path), for a path
\* that names an .npz archive, succeeds, returns the saved camera_matrix and
\* distortion_coeffs, and returns absent extrinsics exactly when the saved
\* extrinsics was absent.
C9_SaveLoadRoundTrip ==
    (/\ calLast.op = "load"
     /\ lastSave.valid
     /\ lastSave.path = calLast.path
     /\ SavezTarget(calLast.path) = calLast.path) =>
        /\ calLast.status = "ok"
        /\ calLast.data.camera_matrix = lastSave.data.camera_matrix
        /\ calLast.data.distortion_coeffs = lastSave.data.distortion_coeffs
        /\ (calLast.data.extrinsics = PyNone) <=> (lastSave.data.extrinsics = PyNone)

====
